---- MODULE Spec2Model ----
(***************************************************************************)
(* SolTrack (src/SolTrack.c, header src/unnamed/part_000): the position of *)
(* the Sun for a UT instant and a geographic location.                     *)
(*                                                                         *)
(* The C code computes in IEEE doubles.  TLC has 32-bit integers only, so  *)
(* a double is modelled as a decimal fixed-point number with twelve        *)
(* fractional digits: the tuple <<t, a, b, c, d>> stands for               *)
(*     t + a/10^3 + b/10^6 + c/10^9 + d/10^12,                             *)
(* with t any integer (the floor of the value) and a, b, c, d in 0..999.   *)
(* F(4, 895, 063, 168, 0) is the source literal 4.895063168.  Literals     *)
(* with more than twelve decimals are rounded to twelve.  The functions of *)
(* math.h (sin, cos, tan, asin, atan2, sqrt, fmod, floor) are computed to  *)
(* that resolution; rounding to 53 bits and the sign of a zero are not     *)
(* modelled.  The infinities are the tuples <<1>> and <<-1>>, and          *)
(* NonFinite, the empty tuple, is the NaN: x/0 is an infinity for x # 0,   *)
(* 0/0 and an asin outside [-1, 1] are NaN, and the operations treat both  *)
(* as IEEE 754 and math.h do.                                              *)
(***************************************************************************)
EXTENDS Integers, Sequences, FiniteSets, TLC

----------------------------------------------------------------------------
(* Fixed-point arithmetic standing for the C double operations.            *)

Base == 10^3

F(t, a, b, c, d) == <<t, a, b, c, d>>

Zero == F(0, 0, 0, 0, 0)
One  == F(1, 0, 0, 0, 0)
Two  == F(2, 0, 0, 0, 0)

NonFinite == <<>>

PosInf == <<1>>
NegInf == <<-1>>

IsFinite(x)   == Len(x) = 5
IsInfinite(x) == Len(x) = 1

\* Carry propagation: limbs of any sign to canonical form.
Norm(t, a, b, c, d) ==
  LET c1 == c + (d \div Base)
      b1 == b + (c1 \div Base)
      a1 == a + (b1 \div Base)
  IN  <<t + (a1 \div Base), a1 % Base, b1 % Base, c1 % Base, d % Base>>

FromInt(n) == <<n, 0, 0, 0, 0>>

Neg(x) ==
  IF IsFinite(x) THEN Norm(-x[1], -x[2], -x[3], -x[4], -x[5])
  ELSE IF IsInfinite(x) THEN <<-x[1]>>
  ELSE NonFinite

\* inf + (-inf) is NaN
Add(x, y) ==
  IF IsFinite(x) /\ IsFinite(y)
    THEN Norm(x[1] + y[1], x[2] + y[2], x[3] + y[3], x[4] + y[4], x[5] + y[5])
  ELSE IF x = NonFinite \/ y = NonFinite THEN NonFinite
  ELSE IF IsFinite(y) \/ x = y THEN x
  ELSE IF IsFinite(x) THEN y
  ELSE NonFinite

Sub(x, y) ==
  IF IsFinite(x) /\ IsFinite(y)
    THEN Norm(x[1] - y[1], x[2] - y[2], x[3] - y[3], x[4] - y[4], x[5] - y[5])
  ELSE Add(x, Neg(y))

\* x < y; false if one of them is NaN
Lt(x, y)  == LET d == Sub(x, y) IN d # NonFinite /\ d[1] < 0
Leq(x, y) == ~Lt(y, x)

Abs(x) == IF x = NonFinite THEN NonFinite ELSE IF x[1] < 0 THEN Neg(x) ELSE x

\* x * k for an int k
MulInt(x, k) ==
  IF IsFinite(x) THEN Norm(x[1] * k, x[2] * k, x[3] * k, x[4] * k, x[5] * k)
  ELSE IF x = NonFinite \/ k = 0 THEN NonFinite
  ELSE IF k > 0 THEN x ELSE Neg(x)

\* x / k for an int k > 0 (short division, rounded down at the last digit)
DivInt(x, k) ==
  IF ~IsFinite(x) THEN x ELSE
  LET n2 == (x[1] % k) * Base + x[2]
      n3 == (n2 % k) * Base + x[3]
      n4 == (n3 % k) * Base + x[4]
      n5 == (n4 % k) * Base + x[5]
  IN  <<x[1] \div k, n2 \div k, n3 \div k, n4 \div k, n5 \div k>>

\* x * y, rounded to the last digit
Mul(x, y) ==
  IF x = NonFinite \/ y = NonFinite THEN NonFinite
  ELSE IF IsInfinite(x) \/ IsInfinite(y)
    THEN (IF x = Zero \/ y = Zero THEN NonFinite                        \* inf * 0
          ELSE IF (x[1] < 0) = (y[1] < 0) THEN PosInf ELSE NegInf)
  ELSE
  LET p0 == x[1]*y[1]
      p1 == x[1]*y[2] + x[2]*y[1]
      p2 == x[1]*y[3] + x[2]*y[2] + x[3]*y[1]
      p3 == x[1]*y[4] + x[2]*y[3] + x[3]*y[2] + x[4]*y[1]
      p4 == x[1]*y[5] + x[2]*y[4] + x[3]*y[3] + x[4]*y[2] + x[5]*y[1]
      p5 == x[2]*y[5] + x[3]*y[4] + x[4]*y[3] + x[5]*y[2]
      p6 == x[3]*y[5] + x[4]*y[4] + x[5]*y[3]
  IN  Norm(p0, p1, p2, p3, p4 + ((p5 + (p6 \div Base) + (Base \div 2)) \div Base))

\* x * 10^6 and x / 10^6 (limb shifts)
ShiftUp(x)   == <<x[1] * Base * Base + x[2] * Base + x[3], x[4], x[5], 0, 0>>
ShiftDown(x) == Norm(0, 0, x[1], x[2], x[3])

\* 1/y for y > 0: Newton's iteration r <- r*(2 - y*r) from an integer estimate
RECURSIVE RecipIter(_, _, _)
RecipIter(y, r, n) ==
  IF ~IsFinite(r) THEN NonFinite
  ELSE IF n = 0 THEN r
  ELSE RecipIter(y, Mul(r, Sub(Two, Mul(y, r))), n - 1)

RECURSIVE Recip(_)
Recip(y) ==
  IF y[1] = 0 /\ y[2] = 0
    THEN ShiftUp(Recip(ShiftUp(y)))
  ELSE IF y[1] = 0
    THEN LET yi == y[2] * Base + y[3]                  \* y in units of 10^-6
             r0 == (Base * Base * Base) \div yi        \* 1/y in units of 10^-3
         IN  RecipIter(y, <<r0 \div Base, r0 % Base, 0, 0, 0>>, 4)
    ELSE LET yi == y[1] * Base + y[2]                  \* y in units of 10^-3
             r0 == (Base * Base * Base) \div yi        \* 1/y in units of 10^-6
         IN  RecipIter(y, <<0, r0 \div Base, r0 % Base, 0, 0>>, 4)

\* x / y
RECURSIVE Div(_, _)
Div(x, y) ==
  IF x = NonFinite \/ y = NonFinite THEN NonFinite
  ELSE IF IsInfinite(x)
    THEN (IF IsInfinite(y) THEN NonFinite                               \* inf / inf
          ELSE IF (x[1] < 0) = (y[1] < 0) THEN PosInf ELSE NegInf)
  ELSE IF IsInfinite(y) THEN Zero
  ELSE IF y = Zero
    THEN (IF x = Zero THEN NonFinite                                    \* 0 / 0
          ELSE IF x[1] < 0 THEN NegInf ELSE PosInf)
  ELSE IF y[1] < 0 THEN Neg(Div(x, Neg(y)))
  ELSE IF y[1] = 0 /\ y[2] = 0 THEN Div(ShiftUp(x), ShiftUp(y))
  ELSE Mul(x, Recip(y))

\* integer square root of n >= 0 by bisection
RECURSIVE ISqrtBetween(_, _, _)
ISqrtBetween(n, lo, hi) ==
  IF hi - lo <= 1 THEN lo
  ELSE LET mid == (lo + hi) \div 2
       IN  IF mid * mid <= n THEN ISqrtBetween(n, mid, hi) ELSE ISqrtBetween(n, lo, mid)

ISqrt(n) == ISqrtBetween(n, 0, 46341)

\* 1/sqrt(x) by Newton's iteration y <- y*(3 - x*y*y)/2
RECURSIVE RSqrtIter(_, _, _)
RSqrtIter(x, y, n) ==
  IF ~IsFinite(y) THEN NonFinite
  ELSE IF n = 0 THEN y
  ELSE RSqrtIter(x, DivInt(Mul(y, Sub(F(3, 0, 0, 0, 0), Mul(x, Mul(y, y)))), 2), n - 1)

\* sqrt(x); NaN for x < 0
RECURSIVE Sqrt(_)
Sqrt(x) ==
  IF x = NonFinite THEN NonFinite
  ELSE IF x[1] < 0 THEN NonFinite
  ELSE IF IsInfinite(x) \/ x = Zero THEN x
  ELSE IF x[1] = 0 /\ x[2] = 0 THEN ShiftDown(MulInt(Sqrt(ShiftUp(x)), Base))
  ELSE IF x[1] >= Base THEN MulInt(Sqrt(ShiftDown(x)), Base)
  ELSE LET xi == x[1] * Base * Base + x[2] * Base + x[3]   \* x in units of 10^-6
           s0 == ISqrt(xi)                                 \* sqrt(x) in units of 10^-3
           y0 == (Base * Base) \div s0                     \* 1/sqrt(x) in units of 10^-3
       IN  Mul(x, RSqrtIter(x, <<y0 \div Base, y0 % Base, 0, 0, 0>>, 5))

----------------------------------------------------------------------------
(* Constants of the header.  EARTH_RADIUS and AU are lengths in cm in the  *)
(* header (6.3781370e8 and 1.49597870700e13); here both are in units of    *)
(* 10^8 cm, which leaves their quotient, the only use made of them, as it  *)
(* is.                                                                     *)

PI           == F(3, 141, 592, 653, 590)
TWO_PI       == F(6, 283, 185, 307, 180)
MPI          == F(3141592, 653, 589, 793, 238)
R2D          == F(57, 295, 779, 513, 082)
EARTH_RADIUS == F(6, 378, 137, 0, 0)
AU           == F(149597, 870, 700, 0, 0)

HALF_PI == DivInt(PI, 2)

----------------------------------------------------------------------------
(* The functions of math.h.                                                *)

Floor(x) == x[1]

\* the value in [0, y) congruent to x modulo y, for y >= 1
RECURSIVE FloorMod(_, _)
FloorMod(x, y) ==
  IF x[1] < 0 \/ x[1] > y[1]
    THEN FloorMod(Sub(x, MulInt(y, x[1] \div (y[1] + 1))), y)
  ELSE IF Lt(x, y) THEN x ELSE Sub(x, y)

\* C's fmod: the remainder of the division truncated towards zero; it has the sign of x
Fmod(x, y) ==
  IF ~IsFinite(x) THEN NonFinite
  ELSE IF x[1] < 0 THEN Neg(FloorMod(Neg(x), y)) ELSE FloorMod(x, y)

Clamp(x, lo, hi) ==
  IF ~IsFinite(x) THEN NonFinite ELSE IF Lt(x, lo) THEN lo ELSE IF Lt(hi, x) THEN hi ELSE x

\* Taylor series of the sine (from term = sum = x, k = 1) and of the cosine
\* (from term = sum = 1, k = 0), for |x| <= pi/2 and x2 = x*x: each term is the
\* one before times -x2/((k+1)(k+2)); the sum ends with the first term below
\* the resolution.
RECURSIVE SeriesSum(_, _, _, _)
SeriesSum(x2, term, sum, k) ==
  IF ~IsFinite(term) \/ ~IsFinite(sum) THEN NonFinite
  ELSE IF term = Zero THEN sum
  ELSE SeriesSum(x2, Neg(DivInt(Mul(term, x2), (k + 1) * (k + 2))),
                 Add(sum, Neg(DivInt(Mul(term, x2), (k + 1) * (k + 2)))), k + 2)

SinSeries(x) == SeriesSum(Mul(x, x), x, x, 1)
CosSeries(x) == SeriesSum(Mul(x, x), One, One, 0)

Sin(x) ==
  IF ~IsFinite(x) THEN NonFinite ELSE
  LET r == FloorMod(x, TWO_PI)
  IN  Clamp(SinSeries(IF Leq(r, HALF_PI) THEN r
                      ELSE IF Leq(r, Add(PI, HALF_PI)) THEN Sub(PI, r)
                      ELSE Sub(r, TWO_PI)),
            Neg(One), One)

Cos(x) ==
  IF ~IsFinite(x) THEN NonFinite ELSE
  LET r == FloorMod(x, TWO_PI)
  IN  IF Leq(r, HALF_PI) \/ Lt(Add(PI, HALF_PI), r)
        THEN Clamp(CosSeries(IF Leq(r, HALF_PI) THEN r ELSE Sub(r, TWO_PI)), Neg(One), One)
        ELSE Clamp(Neg(CosSeries(Sub(r, PI))), Neg(One), One)

Tan(x) == Div(Sin(x), Cos(x))

\* The angle of the unit vector (c, s): Newton's iteration
\* th <- th - (c*sin(th) - s*cos(th)) from the nearest multiple of pi/2.
RECURSIVE AngleIter(_, _, _, _)
AngleIter(c, s, th, n) ==
  IF ~IsFinite(th) THEN NonFinite
  ELSE IF n = 0 THEN th
  ELSE AngleIter(c, s, Sub(th, Sub(Mul(c, Sin(th)), Mul(s, Cos(th)))), n - 1)

AngleOf(c, s) ==
  IF ~IsFinite(c) \/ ~IsFinite(s) THEN NonFinite
  ELSE AngleIter(c, s,
                 IF Leq(Abs(s), Abs(c))
                   THEN (IF c[1] >= 0 THEN Zero ELSE IF s[1] >= 0 THEN PI ELSE Neg(PI))
                   ELSE (IF s[1] >= 0 THEN HALF_PI ELSE Neg(HALF_PI)),
                 3)

\* atan2(y, x), in [-pi, pi]
RECURSIVE Atan2(_, _)
Atan2(y, x) ==
  IF x = NonFinite \/ y = NonFinite THEN NonFinite
  ELSE IF IsInfinite(y)
    THEN LET a == IF IsFinite(x) THEN HALF_PI
                  ELSE IF x[1] > 0 THEN DivInt(PI, 4) ELSE DivInt(MulInt(PI, 3), 4)
         IN  IF y[1] < 0 THEN Neg(a) ELSE a
  ELSE IF IsInfinite(x)
    THEN (IF x[1] > 0 THEN Zero ELSE IF y[1] < 0 THEN Neg(PI) ELSE PI)
  ELSE IF x = Zero /\ y = Zero THEN Zero
  ELSE IF Abs(x)[1] >= Base \/ Abs(y)[1] >= Base THEN Atan2(ShiftDown(y), ShiftDown(x))
  ELSE IF Abs(x)[1] = 0 /\ Abs(x)[2] = 0 /\ Abs(y)[1] = 0 /\ Abs(y)[2] = 0
    THEN Atan2(ShiftUp(y), ShiftUp(x))
  ELSE LET r == Sqrt(Add(Mul(x, x), Mul(y, y)))
       IN  Clamp(AngleOf(Div(x, r), Div(y, r)), Neg(PI), PI)

\* asin(s), in [-pi/2, pi/2]; outside [-1, 1] the C function returns NaN
Asin(s) ==
  IF ~IsFinite(s) THEN NonFinite
  ELSE IF Lt(One, Abs(s)) THEN NonFinite
  ELSE Clamp(AngleOf(Sqrt(Sub(One, Mul(s, s))), s), Neg(HALF_PI), HALF_PI)

----------------------------------------------------------------------------
(* The functions of SolTrack.c.  A function with output parameters is an   *)
(* operator whose value is the record of what it writes.                   *)

\* computeJulianDay with January alone, not January and February, counted as a
\* month of the year before: a variant the Julian Day formula tells apart.
computeJulianDay_JanuaryOnly(year, month, day, hour, minute, second) ==
  LET y    == IF month < 2 THEN year - 1 ELSE year
      m    == IF month < 2 THEN month + 12 ELSE month
      tmp1 == Floor(DivInt(FromInt(y), 100))
      tmp2 == 2 - tmp1 + Floor(DivInt(FromInt(tmp1), 4))
      dDay == Add(Add(Add(FromInt(day), DivInt(FromInt(hour), 24)),
                      DivInt(FromInt(minute), 1440)),
                  DivInt(second, 86400))
  IN  Sub(Add(Add(Add(FromInt(Floor(Mul(F(365, 250, 0, 0, 0), FromInt(y + 4716)))),
                      FromInt(Floor(Mul(F(30, 600, 100, 0, 0), FromInt(m + 1))))),
                  dDay),
              FromInt(tmp2)),
          F(1524, 500, 0, 0, 0))

\* computeJulianDay without the leap day of the years divisible by 400: a variant
\* the continuity of the day count tells apart.
computeJulianDay_No400(year, month, day, hour, minute, second) ==
  LET y    == IF month <= 2 THEN year - 1 ELSE year
      m    == IF month <= 2 THEN month + 12 ELSE month
      tmp1 == Floor(DivInt(FromInt(y), 100))
      tmp2 == 2 - tmp1
      dDay == Add(Add(Add(FromInt(day), DivInt(FromInt(hour), 24)),
                      DivInt(FromInt(minute), 1440)),
                  DivInt(second, 86400))
  IN  Sub(Add(Add(Add(FromInt(Floor(Mul(F(365, 250, 0, 0, 0), FromInt(y + 4716)))),
                      FromInt(Floor(Mul(F(30, 600, 100, 0, 0), FromInt(m + 1))))),
                  dDay),
              FromInt(tmp2)),
          F(1524, 500, 0, 0, 0))

\* computeJulianDay() refusing a month outside 1..12: a variant with a validation
\* of its input.
computeJulianDay_Validating(year, month, day, hour, minute, second) ==
  IF month \notin 1..12 THEN NonFinite ELSE
  LET y    == IF month <= 2 THEN year - 1 ELSE year
      m    == IF month <= 2 THEN month + 12 ELSE month
      tmp1 == Floor(DivInt(FromInt(y), 100))
      tmp2 == 2 - tmp1 + Floor(DivInt(FromInt(tmp1), 4))
      dDay == Add(Add(Add(FromInt(day), DivInt(FromInt(hour), 24)),
                      DivInt(FromInt(minute), 1440)),
                  DivInt(second, 86400))
  IN  Sub(Add(Add(Add(FromInt(Floor(Mul(F(365, 250, 0, 0, 0), FromInt(y + 4716)))),
                      FromInt(Floor(Mul(F(30, 600, 100, 0, 0), FromInt(m + 1))))),
                  dDay),
              FromInt(tmp2)),
          F(1524, 500, 0, 0, 0))

\* computeJulianDay with the months counted in a circle, month 13 and 14 being
\* the January and February of the year given: a variant the months after
\* December tell apart.
computeJulianDay_CyclicMonths(year, month, day, hour, minute, second) ==
  LET y    == IF month % 12 <= 2 THEN year - 1 ELSE year
      m    == IF month % 12 <= 2 THEN month + 12 ELSE month
      tmp1 == Floor(DivInt(FromInt(y), 100))
      tmp2 == 2 - tmp1 + Floor(DivInt(FromInt(tmp1), 4))
      dDay == Add(Add(Add(FromInt(day), DivInt(FromInt(hour), 24)),
                      DivInt(FromInt(minute), 1440)),
                  DivInt(second, 86400))
  IN  Sub(Add(Add(Add(FromInt(Floor(Mul(F(365, 250, 0, 0, 0), FromInt(y + 4716)))),
                      FromInt(Floor(Mul(F(30, 600, 100, 0, 0), FromInt(m + 1))))),
                  dDay),
              FromInt(tmp2)),
          F(1524, 500, 0, 0, 0))

\* double computeJulianDay(int year, int month, int day, int hour, int minute, double second)
computeJulianDay(year, month, day, hour, minute, second) ==
  LET y    == IF month <= 2 THEN year - 1 ELSE year
      m    == IF month <= 2 THEN month + 12 ELSE month
      tmp1 == Floor(DivInt(FromInt(y), 100))
      tmp2 == 2 - tmp1 + Floor(DivInt(FromInt(tmp1), 4))
      dDay == Add(Add(Add(FromInt(day), DivInt(FromInt(hour), 24)),
                      DivInt(FromInt(minute), 1440)),
                  DivInt(second, 86400))
  IN  Sub(Add(Add(Add(FromInt(Floor(Mul(F(365, 250, 0, 0, 0), FromInt(y + 4716)))),
                      FromInt(Floor(Mul(F(30, 600, 100, 0, 0), FromInt(m + 1))))),
                  dDay),
              FromInt(tmp2)),
          F(1524, 500, 0, 0, 0))

\* The derived expressions of time counted from 1 January 2000, 0h UT, half a day
\* before the epoch J2000.0: a variant the epoch itself tells apart.
timePolynomials_FromMidnight(position) ==
  LET dJD  == Sub(position.julianDay, F(2451544, 500, 0, 0, 0))
      tJC  == DivInt(dJD, 36525)
      tJC2 == Mul(tJC, tJC)
      tJC3 == Mul(tJC2, tJC)
  IN  [position EXCEPT !.dJD = dJD, !.tJC = tJC, !.tJC2 = tJC2, !.tJC3 = tJC3]

\* The derived expressions of time, SolTrack() lines 44-47.
timePolynomials(position) ==
  LET dJD  == Sub(position.julianDay, F(2451545, 0, 0, 0, 0))
      tJC  == DivInt(dJD, 36525)
      tJC2 == Mul(tJC, tJC)
      tJC3 == Mul(tJC2, tJC)
  IN  [position EXCEPT !.dJD = dJD, !.tJC = tJC, !.tJC2 = tJC2, !.tJC3 = tJC3]

\* The distance with 1 - e in the place of 1 - e^2: a variant the bounds of the
\* distance tell apart.
distance_LinearEccentricity(e, nu) ==
  Div(Mul(F(1, 0, 001, 018, 0), Sub(One, e)), Add(One, Mul(e, Cos(nu))))

\* The apparent longitude reduced without the offset MPI: a variant the range of
\* the longitude tells apart.
apparentLongitude_NoOffset(odot, aber, dpsi) ==
  Fmod(Add(Add(odot, aber), dpsi), TWO_PI)

\* line 123: the geocentric distance of the Sun in AU, from the eccentricity and the true anomaly
distance(e, nu) ==
  Div(Mul(F(1, 0, 001, 018, 0), Sub(One, Mul(e, e))), Add(One, Mul(e, Cos(nu))))

\* line 131: the apparent geocentric longitude
apparentLongitude(odot, aber, dpsi) ==
  Fmod(Add(Add(Add(odot, aber), dpsi), MPI), TWO_PI)

\* void computeLongitude(struct Position *position)
computeLongitude(position) ==
  LET tJC  == position.tJC
      tJC2 == position.tJC2
      tJC3 == position.tJC3
      l0   == Add(Add(F(4, 895, 063, 168, 0), Mul(F(628, 331, 966, 786, 0), tJC)),
                  Mul(F(0, 0, 5, 291, 838), tJC2))
      m    == Sub(Add(F(6, 240, 060, 141, 0), Mul(F(628, 301, 955, 152, 0), tJC)),
                  Mul(F(0, 0, 2, 682, 571), tJC2))
      e    == Sub(Sub(F(0, 016, 708, 634, 0), Mul(F(0, 0, 042, 037, 0), tJC)),
                  Mul(F(0, 0, 0, 126, 700), tJC2))
      c    == Add(Add(Mul(Sub(Sub(F(0, 033, 416, 108, 800), Mul(F(0, 0, 084, 072, 500), tJC)),
                              Mul(F(0, 0, 0, 244, 300), tJC2)),
                          Sin(m)),
                      Mul(Sub(F(0, 0, 348, 943, 700), Mul(F(0, 0, 1, 762, 780), tJC)),
                          Sin(MulInt(m, 2)))),
                  Mul(F(0, 0, 5, 044, 0), Sin(MulInt(m, 3))))
      omg  == Sub(Add(Add(Sub(F(2, 182, 439, 072, 500), Mul(F(33, 757, 046, 427, 100), tJC)),
                          Mul(F(0, 0, 036, 222, 560), tJC2)),
                      Mul(F(0, 0, 0, 037, 338), tJC3)),
                  Mul(Mul(F(0, 0, 0, 0, 288), tJC2), tJC2))
      lm   == Add(F(3, 810, 341, 700, 0), Mul(F(8399, 709, 113, 0, 0), tJC))
      dpsi == Add(Sub(Sub(Mul(Neg(F(0, 0, 083, 387, 950)), Sin(omg)),
                          Mul(F(0, 0, 6, 399, 540), Sin(MulInt(l0, 2)))),
                      Mul(F(0, 0, 1, 115, 0), Sin(MulInt(lm, 2)))),
                  Mul(F(0, 0, 1, 018, 0), Sin(MulInt(omg, 2))))
      eps0 == Add(Sub(Sub(F(0, 409, 092, 804, 222), Mul(F(0, 0, 226, 965, 525), tJC)),
                      Mul(F(0, 0, 0, 002, 860), tJC2)),
                  Mul(F(0, 0, 0, 008, 790), tJC3))
      deps == Sub(Add(Add(Mul(F(0, 0, 044, 600, 0), Cos(omg)),
                          Mul(F(0, 0, 2, 760, 0), Cos(MulInt(l0, 2)))),
                      Mul(F(0, 0, 0, 484, 800), Cos(MulInt(lm, 2)))),
                  Mul(F(0, 0, 0, 436, 0), Cos(MulInt(omg, 2))))
      write(odot, dist, nutation) ==
        LET aber == Div(Neg(F(0, 0, 099, 308, 700)), dist)
        IN  [position EXCEPT
               !.longitude   = apparentLongitude(odot, aber, nutation),
               !.distance    = dist,
               !.obliquity   = Add(eps0, deps),
               !.nutationLon = nutation]
      fromCentre(centre) ==
        LET odot == Add(l0, centre)
            nu   == Add(m, centre)
        IN  write(odot, distance(e, nu), dpsi)
  IN  fromCentre(c)

\* void convertEclipticToEquatorial(longitude, obliquity, *rightAscension, *declination)
convertEclipticToEquatorial(longitude, obliquity) ==
  [rightAscension |-> Atan2(Mul(Cos(obliquity), Sin(longitude)), Cos(longitude)),
   declination    |-> Asin(Mul(Sin(obliquity), Sin(longitude)))]

\* void eq2horiz(latitude, longitude, rightAscension, declination, agst, *azimuth, *altitude)
eq2horiz(latitude, longitude, rightAscension, declination, agst) ==
  LET hh == Sub(Add(agst, longitude), rightAscension)
      transform(sinhh, coshh, sindec, cosdec, sinlat, coslat) ==
        LET tandec == Div(sindec, cosdec)
        IN  [azimuth  |-> Fmod(Add(Atan2(sinhh, Sub(Mul(coshh, sinlat), Mul(tandec, coslat))),
                                   MPI),
                               TWO_PI),
             altitude |-> Asin(Add(Mul(sinlat, sindec), Mul(Mul(coslat, cosdec), coshh)))]
      fromSines(sinhh, coshh, sindec, sinlat) ==
        transform(sinhh, coshh,
                  sindec, Sqrt(Sub(One, Mul(sindec, sindec))),
                  sinlat, Sqrt(Sub(One, Mul(sinlat, sinlat))))
  IN  fromSines(Sin(hh), Cos(hh), Sin(declination), Sin(latitude))

\* lines 172-173: the apparent Greenwich sidereal time
agst(position) ==
  LET gmst == Sub(Add(Add(F(4, 894, 961, 212, 736), Mul(F(6, 300, 388, 098, 985), position.dJD)),
                      Mul(F(0, 0, 6, 770, 708), position.tJC2)),
                  Mul(Mul(F(0, 0, 0, 0, 451), position.tJC2), position.tJC))
  IN  Add(gmst, Mul(position.nutationLon, Cos(position.obliquity)))

\* line 184: the refraction at an altitude
Refraction(alt) ==
  Div(F(0, 0, 296, 705, 970),
      Tan(Add(alt, Div(F(0, 3, 137, 559, 0), Add(alt, F(0, 089, 186, 300, 0))))))

\* The corrections of the altitude with the refraction computed from the altitude
\* of eq2horiz, before the parallax: a variant the order of the corrections tells apart.
correctAltitude_RefractionFirst(alt, dist) ==
  LET refract(alt1) ==
        [altitude        |-> alt1,
         altitudeRefract |->
           Add(alt1, Div(F(0, 0, 296, 705, 970),
                         Tan(Add(alt, Div(F(0, 3, 137, 559, 0),
                                          Add(alt, F(0, 089, 186, 300, 0)))))))]
  IN  refract(Sub(alt, Mul(Asin(Div(EARTH_RADIUS, Mul(dist, AU))), Cos(alt))))

\* The corrections of the altitude with position->altitude set to the altitude of
\* eq2horiz, ahead of the parallax: a variant the altitude returned tells apart.
correctAltitude_StoredUncorrected(alt, dist) ==
  LET refract(alt1) ==
        [altitude        |-> alt,
         altitudeRefract |->
           Add(alt1, Div(F(0, 0, 296, 705, 970),
                         Tan(Add(alt1, Div(F(0, 3, 137, 559, 0),
                                           Add(alt1, F(0, 089, 186, 300, 0)))))))]
  IN  refract(Sub(alt, Mul(Asin(Div(EARTH_RADIUS, Mul(dist, AU))), Cos(alt))))

\* lines 179-186: the altitude alt of eq2horiz corrected for parallax (stored in
\* position->altitude) and then for refraction (stored in position->altitudeRefract)
correctAltitude(alt, dist) ==
  LET refract(alt1) ==
        [altitude        |-> alt1,
         altitudeRefract |->
           Add(alt1, Div(F(0, 0, 296, 705, 970),
                         Tan(Add(alt1, Div(F(0, 3, 137, 559, 0),
                                           Add(alt1, F(0, 089, 186, 300, 0)))))))]
  IN  refract(Sub(alt, Mul(Asin(Div(EARTH_RADIUS, Mul(dist, AU))), Cos(alt))))

\* void convertEquatorialToHorizontal(struct Location location, struct Position *position)
convertEquatorialToHorizontal(location, position) ==
  LET write(azimuth, cor) ==
        [position EXCEPT !.azimuthRefract  = azimuth,
                         !.altitude        = cor.altitude,
                         !.altitudeRefract = cor.altitudeRefract]
      correct(hor) == write(hor.azimuth, correctAltitude(hor.altitude, position.distance))
  IN  correct(eq2horiz(location.latitude, location.longitude,
                       position.rightAscension, position.declination, agst(position)))

\* void convertHorizontalToEquatorial(latitude, azimuth, altitude, *hourAngle, *declination)
convertHorizontalToEquatorial(latitude, azimuth, altitude) ==
  LET transform(cosaz, sinaz, sinalt, cosalt, sinlat, coslat) ==
        LET tanalt == Div(sinalt, cosalt)
            ha     == Atan2(sinaz, Add(Mul(cosaz, sinlat), Mul(tanalt, coslat)))
        IN  [hourAngle   |-> Fmod(Add(ha, MPI), TWO_PI),
             declination |-> Asin(Sub(Mul(sinlat, sinalt), Mul(Mul(coslat, cosalt), cosaz)))]
      fromSines(cosaz, sinaz, sinalt, sinlat) ==
        transform(cosaz, sinaz,
                  sinalt, Sqrt(Sub(One, Mul(sinalt, sinalt))),
                  sinlat, Sqrt(Sub(One, Mul(sinlat, sinlat))))
  IN  fromSines(Cos(azimuth), Sin(azimuth), Sin(altitude), Sin(latitude))

\* The shift to North = 0 without the reduction into one turn: a variant the range
\* of the azimuth and the hour angle tells apart.
useNorthEqualsZero_NoReduction(azimuth, hourAngle, computeEquatorial) ==
  [azimuth   |-> Add(azimuth, PI),
   hourAngle |-> IF computeEquatorial # 0 THEN Add(hourAngle, PI) ELSE hourAngle]

\* useNorthEqualsZero() shifting the hour angle whether or not the equatorial
\* output is computed: a variant that touches an hour angle the call never wrote.
useNorthEqualsZero_HourAngleAlways(azimuth, hourAngle, computeEquatorial) ==
  [azimuth   |-> Fmod(Add(Add(azimuth, PI), MPI), TWO_PI),
   hourAngle |-> Fmod(Add(Add(hourAngle, PI), MPI), TWO_PI)]

\* void useNorthEqualsZero(double *azimuth, double *hourAngle, int computeEquatorial)
useNorthEqualsZero(azimuth, hourAngle, computeEquatorial) ==
  [azimuth   |-> Fmod(Add(Add(azimuth, PI), MPI), TWO_PI),
   hourAngle |-> IF computeEquatorial # 0
                   THEN Fmod(Add(Add(hourAngle, PI), MPI), TWO_PI)
                   ELSE hourAngle]

\* convertRadiansToDegrees with no test of computeEquatorial: a variant that reads
\* the hour angle and the declination of a record no statement has written them to.
convertRadiansToDegrees_Unconditional(azimuth, altitude, hourAngle, declination, computeEquatorial) ==
  [azimuth     |-> Mul(azimuth, R2D),
   altitude    |-> Mul(altitude, R2D),
   hourAngle   |-> Mul(hourAngle, R2D),
   declination |-> Mul(declination, R2D)]

\* void convertRadiansToDegrees(*azimuth, *altitude, *hourAngle, *declination, computeEquatorial)
convertRadiansToDegrees(azimuth, altitude, hourAngle, declination, computeEquatorial) ==
  [azimuth     |-> Mul(azimuth, R2D),
   altitude    |-> Mul(altitude, R2D),
   hourAngle   |-> IF computeEquatorial # 0 THEN Mul(hourAngle, R2D) ELSE hourAngle,
   declination |-> IF computeEquatorial # 0 THEN Mul(declination, R2D) ELSE declination]

----------------------------------------------------------------------------
(* The inputs the model draws.                                             *)

NumTimes     == 7
NumLocations == 4
NumPrior     == 1

\* The instants of the test programs first (examples/TestSolTrackSingle.c 37-42,
\* TestSolTrack.c 37-42), then two whose fields are outside the calendar, which
\* the int and double fields of struct Time hold as well as any (TestSolTrack.c
\* 68-70 reads them unchecked), then instants spread over the years 1583..2102.
TimeAt(j) ==
  IF j = 0 THEN [year |-> 2045, month |-> 7, day |-> 16,
                 hour |-> 6, minute |-> 2, second |-> F(49, 217, 348, 0, 0)]
  ELSE IF j = 1 THEN [year |-> 2014, month |-> 6, day |-> 21,
                      hour |-> 11, minute |-> 41, second |-> F(46, 0, 0, 0, 0)]
  ELSE IF j = 2 THEN [year |-> 2014, month |-> 13, day |-> 32,
                      hour |-> 25, minute |-> 61, second |-> F(60, 500, 0, 0, 0)]
  ELSE IF j = 3 THEN [year |-> 2014, month |-> 0, day |-> 0,
                      hour |-> -1, minute |-> -1, second |-> Neg(One)]
  ELSE [year   |-> 1583 + ((j * 197) % 520),
        month  |-> 1 + ((j * 5) % 12),
        day    |-> 1 + ((j * 11) % 28),
        hour   |-> (j * 7) % 24,
        minute |-> (j * 13) % 60,
        second |-> F((j * 17) % 60, 217, 348, 0, 0)]

Times == {TimeAt(j) : j \in 0..NumTimes}

\* The location of the test programs first (TestSolTrack.c 45-47), then latitudes
\* from pole to pole and longitudes around the globe.
LocationAt(i) ==
  IF i = 0 THEN [longitude |-> Div(F(5, 950, 270, 0, 0), R2D),
                 latitude  |-> Div(F(51, 987, 380, 0, 0), R2D)]
  ELSE [longitude |-> Sub(FloorMod(MulInt(F(1, 100, 0, 0, 0), i), TWO_PI), PI),
        latitude  |-> DivInt(MulInt(HALF_PI, ((i * 3) % 7) - 3), 3)]

Locations == {LocationAt(i) : i \in 0..NumLocations}

\* TestSolTrack.c 45-47: Arnhem, the Netherlands
Arnhem == LocationAt(0)

\* What the caller's struct Position may hold before the call: it is not initialised
\* (TestSolTrack.c 63).
PriorValues == {FromInt(-7 * k) : k \in 0..NumPrior}

PriorPosition(v) ==
  [julianDay |-> v, dJD |-> v, tJC |-> v, tJC2 |-> v, tJC3 |-> v,
   longitude |-> v, distance |-> v, obliquity |-> v, nutationLon |-> v,
   rightAscension |-> v, declination |-> v,
   altitude |-> v, altitudeRefract |-> v, azimuthRefract |-> v,
   hourAngleRefract |-> v, declinationRefract |-> v]

----------------------------------------------------------------------------
(* One call of SolTrack(time, location, &position, computeEquatorial).     *)
(* pc names the statement of SolTrack() that runs next.  useDegrees and    *)
(* useNorthEqualsZeroOpt are what the caller asks for in the test programs  *)
(* (TestSolTrackFile.c 31-32 and 76); the SolTrack() of SolTrack.c has no   *)
(* parameter that receives them.                                           *)

VARIABLES time, location, computeEquatorial, useDegrees, useNorthEqualsZeroOpt, position, pc,
          before,  \* what *position held when SolTrack() was called
          calls,   \* the number of calls of SolTrack() made with *position so far
          riseSet  \* the search of SolTrack_RiseSet(), where one is made

vars == <<time, location, computeEquatorial, useDegrees, useNorthEqualsZeroOpt, position, pc,
          before, calls, riseSet>>

\* what no statement of SolTrack() changes
inputs == <<time, location, computeEquatorial, useDegrees, useNorthEqualsZeroOpt, before, calls,
            riseSet>>

\* riseSet where SolTrack_RiseSet() is not called
NoRiseSet == <<>>

\* The statements of SolTrack() with useNorthEqualsZero() ahead of
\* convertHorizontalToEquatorial(): a variant the order of the stages tells apart.
NextStage_NormalizeEarly(stage) ==
  CASE stage = "computeJulianDay"              -> "timePolynomials"
    [] stage = "timePolynomials"               -> "computeLongitude"
    [] stage = "computeLongitude"              -> "convertEclipticToEquatorial"
    [] stage = "convertEclipticToEquatorial"   -> "convertEquatorialToHorizontal"
    [] stage = "convertEquatorialToHorizontal" -> "useNorthEqualsZero"
    [] stage = "useNorthEqualsZero"            -> "convertHorizontalToEquatorial"
    [] stage = "convertHorizontalToEquatorial" -> "convertRadiansToDegrees"
    [] stage = "convertRadiansToDegrees"       -> "done"

\* The order of the statements of SolTrack().
NextStage(stage) ==
  CASE stage = "computeJulianDay"              -> "timePolynomials"
    [] stage = "timePolynomials"               -> "computeLongitude"
    [] stage = "computeLongitude"              -> "convertEclipticToEquatorial"
    [] stage = "convertEclipticToEquatorial"   -> "convertEquatorialToHorizontal"
    [] stage = "convertEquatorialToHorizontal" -> "convertHorizontalToEquatorial"
    [] stage = "convertHorizontalToEquatorial" -> "useNorthEqualsZero"
    [] stage = "useNorthEqualsZero"            -> "convertRadiansToDegrees"
    [] stage = "convertRadiansToDegrees"       -> "done"

Init ==
  /\ time \in Times
  /\ location \in Locations
  /\ computeEquatorial \in {0, 1}
  /\ useDegrees \in {0, 1}
  /\ useNorthEqualsZeroOpt \in {0, 1}
  /\ position \in {PriorPosition(v) : v \in PriorValues}
  /\ before = position
  /\ calls = 1
  /\ riseSet = NoRiseSet
  /\ pc = "computeJulianDay"

\* The statements of SolTrack() that are no function of the record alone: each is
\* the record *position after the statement, from the record pos before it.

\* line 40
callJulianDay(t, pos) ==
  [pos EXCEPT !.julianDay =
     computeJulianDay(t.year, t.month, t.day, t.hour, t.minute, t.second)]

\* line 54
callEclipticToEquatorial(pos) ==
  LET write(eq) == [pos EXCEPT !.rightAscension = eq.rightAscension,
                               !.declination    = eq.declination]
  IN  write(convertEclipticToEquatorial(pos.longitude, pos.obliquity))

\* The back-conversion left out when the record holds an hour angle already: a
\* variant that makes the outcome of a call depend on what the record held before.
callHorizontalToEquatorial_KeepingEarlier(loc, pos, equatorial) ==
  IF equatorial # 0 /\ pos.hourAngleRefract = Zero
    THEN LET write(eq) == [pos EXCEPT !.hourAngleRefract   = eq.hourAngle,
                                      !.declinationRefract = eq.declination]
         IN  write(convertHorizontalToEquatorial(loc.latitude,
                     pos.azimuthRefract, pos.altitudeRefract))
    ELSE pos

\* The back-conversion made whether or not it is asked for: a variant the frame of
\* a call with computeEquatorial = 0 tells apart.
callHorizontalToEquatorial_Always(loc, pos, equatorial) ==
  LET write(eq) == [pos EXCEPT !.hourAngleRefract   = eq.hourAngle,
                               !.declinationRefract = eq.declination]
  IN  write(convertHorizontalToEquatorial(loc.latitude,
              pos.azimuthRefract, pos.altitudeRefract))

\* lines 59-61
callHorizontalToEquatorial(loc, pos, equatorial) ==
  IF equatorial # 0
    THEN LET write(eq) == [pos EXCEPT !.hourAngleRefract   = eq.hourAngle,
                                      !.declinationRefract = eq.declination]
         IN  write(convertHorizontalToEquatorial(loc.latitude,
                     pos.azimuthRefract, pos.altitudeRefract))
    ELSE pos

\* line 63
callUseNorthEqualsZero(pos, equatorial) ==
  LET write(n) == [pos EXCEPT !.azimuthRefract   = n.azimuth,
                              !.hourAngleRefract = n.hourAngle]
  IN  write(useNorthEqualsZero(pos.azimuthRefract, pos.hourAngleRefract, equatorial))

\* The conversion to degrees applied to the altitude field as well: a variant that
\* touches a value the later statements of a caller take in radians.
callConvertRadiansToDegrees_AlsoAltitude(pos, equatorial) ==
  LET write(d) == [pos EXCEPT !.azimuthRefract     = d.azimuth,
                              !.altitude           = Mul(pos.altitude, R2D),
                              !.altitudeRefract    = d.altitude,
                              !.hourAngleRefract   = d.hourAngle,
                              !.declinationRefract = d.declination]
  IN  write(convertRadiansToDegrees(pos.azimuthRefract, pos.altitudeRefract,
                                    pos.hourAngleRefract, pos.declinationRefract,
                                    equatorial))

\* line 66
callConvertRadiansToDegrees(pos, equatorial) ==
  LET write(d) == [pos EXCEPT !.azimuthRefract     = d.azimuth,
                              !.altitudeRefract    = d.altitude,
                              !.hourAngleRefract   = d.hourAngle,
                              !.declinationRefract = d.declination]
  IN  write(convertRadiansToDegrees(pos.azimuthRefract, pos.altitudeRefract,
                                    pos.hourAngleRefract, pos.declinationRefract,
                                    equatorial))

\* line 40
StageJulianDay ==
  /\ pc = "computeJulianDay"
  /\ position' = callJulianDay(time, position)
  /\ pc' = NextStage(pc)
  /\ UNCHANGED inputs

\* lines 44-47
StageTimePolynomials ==
  /\ pc = "timePolynomials"
  /\ position' = timePolynomials(position)
  /\ pc' = NextStage(pc)
  /\ UNCHANGED inputs

\* line 51
StageComputeLongitude ==
  /\ pc = "computeLongitude"
  /\ position' = computeLongitude(position)
  /\ pc' = NextStage(pc)
  /\ UNCHANGED inputs

\* line 54
StageEclipticToEquatorial ==
  /\ pc = "convertEclipticToEquatorial"
  /\ position' = callEclipticToEquatorial(position)
  /\ pc' = NextStage(pc)
  /\ UNCHANGED inputs

\* line 57
StageEquatorialToHorizontal ==
  /\ pc = "convertEquatorialToHorizontal"
  /\ position' = convertEquatorialToHorizontal(location, position)
  /\ pc' = NextStage(pc)
  /\ UNCHANGED inputs

\* line 60
StageHorizontalToEquatorial ==
  /\ pc = "convertHorizontalToEquatorial"
  /\ position' = callHorizontalToEquatorial(location, position, computeEquatorial)
  /\ pc' = NextStage(pc)
  /\ UNCHANGED inputs

\* line 63
StageUseNorthEqualsZero ==
  /\ pc = "useNorthEqualsZero"
  /\ position' = callUseNorthEqualsZero(position, computeEquatorial)
  /\ pc' = NextStage(pc)
  /\ UNCHANGED inputs

\* line 66
StageConvertRadiansToDegrees ==
  /\ pc = "convertRadiansToDegrees"
  /\ position' = callConvertRadiansToDegrees(position, computeEquatorial)
  /\ pc' = NextStage(pc)
  /\ UNCHANGED inputs

Next ==
  \/ StageJulianDay
  \/ StageTimePolynomials
  \/ StageComputeLongitude
  \/ StageEclipticToEquatorial
  \/ StageEquatorialToHorizontal
  \/ StageHorizontalToEquatorial
  \/ StageUseNorthEqualsZero
  \/ StageConvertRadiansToDegrees

Spec == Init /\ [][Next]_vars

----------------------------------------------------------------------------
(* computeJulianDay() on its own: the first statement of SolTrack() for    *)
(* every calendar date of the years 1583..MaxJDYear at 0h UT, and for      *)
(* field values of any kind, valid or not, in a few years.                 *)

MaxJDYear == 2101

IsLeapYear(y) == (y % 4 = 0 /\ y % 100 # 0) \/ y % 400 = 0

DaysInMonth(y, m) ==
  IF m = 2 THEN (IF IsLeapYear(y) THEN 29 ELSE 28)
  ELSE IF m \in {4, 6, 9, 11} THEN 30 ELSE 31

IsCalendarDate(t) ==
  /\ t.year >= 1583
  /\ t.month \in 1..12
  /\ t.day \in 1..DaysInMonth(t.year, t.month)

IsMidnight(t) == t.hour = 0 /\ t.minute = 0 /\ t.second = Zero

\* the calendar date after t
NextDate(t) ==
  IF t.day < DaysInMonth(t.year, t.month) THEN [t EXCEPT !.day = t.day + 1]
  ELSE IF t.month < 12 THEN [t EXCEPT !.month = t.month + 1, !.day = 1]
  ELSE [t EXCEPT !.year = t.year + 1, !.month = 1, !.day = 1]

JDYears    == {-4800, 0, 1999, 2000, 99999}
JDDays     == {0, 1, 15, 32}
JDHours    == {-1, 0, 12, 23, 25}
JDMinutes  == {0, 59, 61}
JDSeconds  == {Zero, F(49, 217, 348, 0, 0), Neg(One), F(60, 500, 0, 0, 0)}

InitJD ==
  /\ \/ \E y \in 1583..MaxJDYear, m \in 1..12, d \in 1..31 :
          /\ d <= DaysInMonth(y, m)
          /\ time = [year |-> y, month |-> m, day |-> d,
                     hour |-> 0, minute |-> 0, second |-> Zero]
     \/ \E y \in JDYears, m \in -1..14, d \in JDDays,
           h \in JDHours, mi \in JDMinutes, sec \in JDSeconds :
          time = [year |-> y, month |-> m, day |-> d,
                  hour |-> h, minute |-> mi, second |-> sec]
  /\ location = Arnhem
  /\ computeEquatorial = 1
  /\ useDegrees = 0
  /\ useNorthEqualsZeroOpt = 0
  /\ position = PriorPosition(Zero)
  /\ before = position
  /\ calls = 1
  /\ riseSet = NoRiseSet
  /\ pc = "computeJulianDay"

NextJD == StageJulianDay

SpecJD == InitJD /\ [][NextJD]_vars

----------------------------------------------------------------------------
(* SolTrack() up to and including computeLongitude(), at noon of every     *)
(* LonDayStep-th day of every month of the years LonFirstYear,             *)
(* LonFirstYear + LonYearStep, ... and of 1583, the first full year of the *)
(* Gregorian calendar.                                                     *)

LonFirstYear == 1000
LonYearStep  == 100
NumLonYears  == 20
LonDayStep   == 3

InitLon ==
  /\ \E k \in -1..NumLonYears, m \in 1..12, d \in {1 + LonDayStep * i : i \in 0..(27 \div LonDayStep)} :
       time = [year   |-> IF k < 0 THEN 1583 ELSE LonFirstYear + LonYearStep * k,
               month  |-> m, day |-> d,
               hour   |-> 12, minute |-> 0, second |-> Zero]
  /\ location = Arnhem
  /\ computeEquatorial = 1
  /\ useDegrees = 0
  /\ useNorthEqualsZeroOpt = 0
  /\ position = PriorPosition(FromInt(-7))
  /\ before = position
  /\ calls = 1
  /\ riseSet = NoRiseSet
  /\ pc = "computeJulianDay"

NextLon ==
  \/ StageJulianDay
  \/ StageTimePolynomials
  \/ StageComputeLongitude

SpecLon == InitLon /\ [][NextLon]_vars

----------------------------------------------------------------------------
(* eq2horiz() followed by convertHorizontalToEquatorial(), with neither    *)
(* the parallax nor the refraction in between: latitudes and declinations  *)
(* at the fractions k/(NumTripAngles + 1) of a quarter turn and one        *)
(* TripPoleGap short of it, and hour angles that are multiples of          *)
(* TripHourStep, negative ones and ones beyond a turn among them.  The     *)
(* sidereal time and the longitude are 0, so that the hour angle is minus  *)
(* the right ascension.                                                    *)

NumTripAngles == 7
NumTripHours  == 6

TripPoleGap  == F(0, 0, 0, 001, 0)
TripHourStep == F(0, 700, 0, 0, 0)

TripAngles ==
  {DivInt(MulInt(HALF_PI, k), NumTripAngles + 1) : k \in -NumTripAngles..NumTripAngles}
    \cup {Sub(HALF_PI, TripPoleGap), Neg(Sub(HALF_PI, TripPoleGap))}

TripHourAngles == {MulInt(TripHourStep, k) : k \in -3..NumTripHours}

InitTrip ==
  /\ time = TimeAt(0)
  /\ \E lat \in TripAngles :
       location = [longitude |-> Zero, latitude |-> lat]
  /\ computeEquatorial = 1
  /\ useDegrees = 0
  /\ useNorthEqualsZeroOpt = 0
  /\ \E dec \in TripAngles, hh \in TripHourAngles :
       position = [PriorPosition(Zero) EXCEPT !.declination = dec, !.rightAscension = Neg(hh)]
  /\ before = position
  /\ calls = 1
  /\ riseSet = NoRiseSet
  /\ pc = "eq2horiz"

\* SolTrack.c 177, with agst = 0 and without lines 179-186
TripEq2horiz ==
  /\ pc = "eq2horiz"
  /\ LET write(hor) == [position EXCEPT !.azimuthRefract  = hor.azimuth,
                                        !.altitude        = hor.altitude,
                                        !.altitudeRefract = hor.altitude]
     IN  position' = write(eq2horiz(location.latitude, location.longitude,
                                    position.rightAscension, position.declination, Zero))
  /\ pc' = "convertHorizontalToEquatorial"
  /\ UNCHANGED inputs

\* SolTrack.c 60
TripHorizontalToEquatorial ==
  /\ pc = "convertHorizontalToEquatorial"
  /\ position' = callHorizontalToEquatorial(location, position, computeEquatorial)
  /\ pc' = "done"
  /\ UNCHANGED inputs

NextTrip ==
  \/ TripEq2horiz
  \/ TripHorizontalToEquatorial

SpecTrip == InitTrip /\ [][NextTrip]_vars

----------------------------------------------------------------------------
(* The correction for refraction on its own, SolTrack.c 184-186, and the   *)
(* back-conversion that reads its result, line 60.  position->altitude is  *)
(* the altitude corrected for parallax, as line 181 leaves it: the         *)
(* fractions k/NumAltitudes of a quarter turn, the altitude that is minus  *)
(* the constant 8.91863e-2 of line 184, and the altitude SolTrack()        *)
(* computes for Arnhem on 16 July 2045 at 20:24:33.3533 UT.  The azimuth   *)
(* is the one of that instant.                                             *)

NumAltitudes == 150

\* the altitude at which alt + 8.91863e-2 is 0
SingularAltitude == Neg(F(0, 089, 186, 300, 0))

\* -5.08 degrees: the Sun past its setting at Arnhem, 16 July 2045, 20:24:33.3533 UT
EveningAltitude == Neg(F(0, 088, 693, 882, 036))
EveningAzimuth  == F(2, 349, 975, 229, 140)

RefractAltitudes ==
  {DivInt(MulInt(HALF_PI, k), NumAltitudes) : k \in -NumAltitudes..NumAltitudes}
    \cup {SingularAltitude, EveningAltitude}

InitRefract ==
  /\ time = TimeAt(0)
  /\ location = Arnhem
  /\ computeEquatorial = 1
  /\ useDegrees = 0
  /\ useNorthEqualsZeroOpt = 0
  /\ \E alt \in RefractAltitudes :
       position = [PriorPosition(Zero) EXCEPT !.altitude = alt,
                                              !.azimuthRefract = EveningAzimuth]
  /\ before = position
  /\ calls = 1
  /\ riseSet = NoRiseSet
  /\ pc = "refraction"

\* SolTrack.c 184-186
StageRefraction ==
  /\ pc = "refraction"
  /\ position' = [position EXCEPT
                    !.altitudeRefract = Add(position.altitude, Refraction(position.altitude))]
  /\ pc' = "convertHorizontalToEquatorial"
  /\ UNCHANGED inputs

NextRefract ==
  \/ StageRefraction
  \/ TripHorizontalToEquatorial

SpecRefract == InitRefract /\ [][NextRefract]_vars

----------------------------------------------------------------------------
(* Two callers, each with a struct Position of its own, whose calls of     *)
(* SolTrack() run statement by statement in any interleaving.  A caller    *)
(* whose call has returned may call again with the same record, as the     *)
(* loop of TestSolTrack.c does (lines 63-73): a record is fresh, or holds   *)
(* what an earlier call left in it.  Here every variable of one call is a  *)
(* function of the caller.                                                 *)

Callers == {1, 2}

NumPairTimes == 1
MaxCalls     == 2

PairTimes == {TimeAt(j) : j \in 0..(NumPairTimes - 1)}

\* void SolTrack(struct Time time, struct Location location, struct Position *position,
\*               int computeEquatorial): *position when the call returns, from pos
SolTrack(t, loc, pos, equatorial) ==
  callConvertRadiansToDegrees(
    callUseNorthEqualsZero(
      callHorizontalToEquatorial(loc,
        convertEquatorialToHorizontal(loc,
          callEclipticToEquatorial(computeLongitude(timePolynomials(callJulianDay(t, pos))))),
        equatorial),
      equatorial),
    equatorial)

InitPair ==
  /\ time \in [Callers -> PairTimes]
  /\ location = [c \in Callers |-> Arnhem]
  /\ computeEquatorial \in [Callers -> {0, 1}]
  /\ useDegrees = 0
  /\ useNorthEqualsZeroOpt = 0
  /\ position = [c \in Callers |-> PriorPosition(Zero)]
  /\ before = position
  /\ calls = [c \in Callers |-> 1]
  /\ riseSet = NoRiseSet
  /\ pc = [c \in Callers |-> "computeJulianDay"]

\* Every statement writing the records of all callers: a variant in which the
\* calls share one record.
Statement_SharedRecord(c, pos) ==
  /\ position' = [other \in Callers |-> pos]
  /\ pc' = [pc EXCEPT ![c] = NextStage(pc[c])]
  /\ UNCHANGED inputs

\* The statement caller c is at leaves pos in c's record.
Statement(c, pos) ==
  /\ position' = [position EXCEPT ![c] = pos]
  /\ pc' = [pc EXCEPT ![c] = NextStage(pc[c])]
  /\ UNCHANGED inputs

PairJulianDay(c) ==
  /\ pc[c] = "computeJulianDay"
  /\ Statement(c, callJulianDay(time[c], position[c]))

PairTimePolynomials(c) ==
  /\ pc[c] = "timePolynomials"
  /\ Statement(c, timePolynomials(position[c]))

PairComputeLongitude(c) ==
  /\ pc[c] = "computeLongitude"
  /\ Statement(c, computeLongitude(position[c]))

PairEclipticToEquatorial(c) ==
  /\ pc[c] = "convertEclipticToEquatorial"
  /\ Statement(c, callEclipticToEquatorial(position[c]))

PairEquatorialToHorizontal(c) ==
  /\ pc[c] = "convertEquatorialToHorizontal"
  /\ Statement(c, convertEquatorialToHorizontal(location[c], position[c]))

PairHorizontalToEquatorial(c) ==
  /\ pc[c] = "convertHorizontalToEquatorial"
  /\ Statement(c, callHorizontalToEquatorial(location[c], position[c], computeEquatorial[c]))

PairUseNorthEqualsZero(c) ==
  /\ pc[c] = "useNorthEqualsZero"
  /\ Statement(c, callUseNorthEqualsZero(position[c], computeEquatorial[c]))

PairConvertRadiansToDegrees(c) ==
  /\ pc[c] = "convertRadiansToDegrees"
  /\ Statement(c, callConvertRadiansToDegrees(position[c], computeEquatorial[c]))

\* TestSolTrack.c 68-73: the next call with the record the last call filled
CallAgain(c) ==
  /\ pc[c] = "done"
  /\ calls[c] < MaxCalls
  /\ \E t \in PairTimes, equatorial \in {0, 1} :
       /\ time' = [time EXCEPT ![c] = t]
       /\ computeEquatorial' = [computeEquatorial EXCEPT ![c] = equatorial]
  /\ before' = [before EXCEPT ![c] = position[c]]
  /\ calls' = [calls EXCEPT ![c] = calls[c] + 1]
  /\ pc' = [pc EXCEPT ![c] = "computeJulianDay"]
  /\ UNCHANGED <<location, useDegrees, useNorthEqualsZeroOpt, position, riseSet>>

NextPair ==
  \E c \in Callers :
    \/ PairJulianDay(c)
    \/ PairTimePolynomials(c)
    \/ PairComputeLongitude(c)
    \/ PairEclipticToEquatorial(c)
    \/ PairEquatorialToHorizontal(c)
    \/ PairHorizontalToEquatorial(c)
    \/ PairUseNorthEqualsZero(c)
    \/ PairConvertRadiansToDegrees(c)
    \/ CallAgain(c)

SpecPair == InitPair /\ [][NextPair]_vars

----------------------------------------------------------------------------
(* SolTrack_RiseSet(time, location, &position, &riseSet, rsAlt, ...), the   *)
(* call of examples/TestSolTrackSingle.c 54.  Its code is not among the     *)
(* sources; it is modelled from its description: a search over the day of  *)
(* the transit, then of the instant the altitude rises through rsAlt, then *)
(* of the instant it sets through rsAlt.  The search of an event starts    *)
(* from an interval of instants, half a day long, and looks at its two     *)
(* ends: the event has to be ahead at the first and past at the second.    *)
(* It then halves the interval, each iteration computing the position at   *)
(* the middle, until the interval is no longer than the accuracy asked for *)
(* or the iterations reach MaxIterations.  pc is the state of the search,  *)
(* Searching, Converged or NotFound.  Instants are whole seconds from 0h   *)
(* UT of the date; the locations are on the meridian of Greenwich, where   *)
(* the transit is near 12h UT.                                             *)

MaxIterations   == 8
NumRiseSetDates == 3

HalfDay == 43200

\* the 21st of June, of September and of December: the solstices and a day near
\* an equinox
RiseSetDates ==
  {[year |-> 2014, month |-> 3 * k, day |-> 21, hour |-> 0, minute |-> 0, second |-> Zero] :
     k \in {((5 * i) % 4) + 1 : i \in 1..NumRiseSetDates}}

\* the equator, the latitude of Arnhem, and 80 degrees North
RiseSetLocations ==
  {[longitude |-> Zero, latitude |-> lat] :
     lat \in {Zero, Arnhem.latitude, DivInt(MulInt(HALF_PI, 8), 9)}}

\* the altitudes of the horizon: 0, and -0.83 degrees
RiseSetAltitudes == {Zero, Neg(F(0, 014, 486, 0, 0))}

\* the accuracies asked for, in seconds
Accuracies == {60, 300}

\* the instant s seconds from 0h UT of the date of t
TrialTime(t, s) == [t EXCEPT !.second = FromInt(s)]

\* The position at the trial instant: Julian Day to horizontal coordinates.
PositionAt(t, loc, pos, s) ==
  convertEquatorialToHorizontal(loc,
    callEclipticToEquatorial(computeLongitude(timePolynomials(callJulianDay(TrialTime(t, s), pos)))))

\* The local hour angle of the position, in [0, 2 pi): pi up to 2 pi before the
\* transit, 0 up to pi after it.
LocalHourAngle(loc, pos) ==
  FloorMod(Sub(Add(agst(pos), loc.longitude), pos.rightAscension), TWO_PI)

\* Is the event still to come at the instant of pos?
EventAhead(event, rsAlt, loc, pos) ==
  IF event = "transit" THEN Lt(PI, LocalHourAngle(loc, pos))
  ELSE IF event = "rise" THEN Lt(pos.altitude, rsAlt)
  ELSE ~Lt(pos.altitude, rsAlt)

\* The order of the searches, and the interval each starts from.
EventAfter(event) == IF event = "transit" THEN "rise" ELSE "set"

FirstLo(event, transitTime) == IF event = "rise" THEN transitTime - HalfDay ELSE transitTime
FirstHi(event, transitTime) == IF event = "rise" THEN transitTime ELSE transitTime + HalfDay

\* The search never gives up: a variant without the cap on the iterations.
Exhausted_Never(rs) == FALSE

\* The iterations of the search under way have reached the cap.
Exhausted(rs) == rs.iterations >= MaxIterations

\* The interval of the search under way is within the accuracy asked for.
Narrow(rs) == rs.hi - rs.lo <= rs.accuracy

\* The search of an event, from its first interval: the first end is looked at first.
StartSearch(rs, event, lo, hi) ==
  [rs EXCEPT !.event = event, !.lo = lo, !.hi = hi, !.iterations = 0,
             !.step = "first end", !.trial = lo, !.evaluated = FALSE]

InitRiseSet ==
  /\ time \in RiseSetDates
  /\ location \in RiseSetLocations
  /\ computeEquatorial = 0
  /\ useDegrees = 0
  /\ useNorthEqualsZeroOpt = 0
  /\ position = PriorPosition(Zero)
  /\ before = position
  /\ calls = 1
  /\ \E alt \in RiseSetAltitudes, acc \in Accuracies :
       riseSet = StartSearch([event |-> "transit", lo |-> 0, hi |-> 0, iterations |-> 0,
                              step |-> "first end", trial |-> 0, evaluated |-> FALSE,
                              ahead |-> FALSE, rsAlt |-> alt, accuracy |-> acc,
                              transitTime |-> 0, riseTime |-> 0, setTime |-> 0],
                             "transit", HalfDay \div 2, HalfDay + HalfDay \div 2)
  /\ pc = "Searching"

\* The position at the trial instant, and whether the event is ahead there.
Evaluate ==
  /\ pc = "Searching"
  /\ ~riseSet.evaluated
  /\ riseSet.step = "halve" => ~Narrow(riseSet) /\ ~Exhausted(riseSet)
  /\ LET look(pos) ==
           /\ position' = pos
           /\ riseSet' = [riseSet EXCEPT
                            !.evaluated = TRUE,
                            !.ahead = EventAhead(riseSet.event, riseSet.rsAlt, location, pos)]
     IN  look(PositionAt(time, location, position, riseSet.trial))
  /\ UNCHANGED <<time, location, computeEquatorial, useDegrees, useNorthEqualsZeroOpt,
                 before, calls, pc>>

\* An end of the first interval is as the search needs it: the event ahead at
\* the first end, no longer ahead at the second.
CheckEnd ==
  /\ pc = "Searching"
  /\ riseSet.evaluated
  /\ \/ /\ riseSet.step = "first end"
        /\ riseSet.ahead
        /\ riseSet' = [riseSet EXCEPT !.step = "second end", !.trial = riseSet.hi,
                                      !.evaluated = FALSE]
     \/ /\ riseSet.step = "second end"
        /\ ~riseSet.ahead
        /\ riseSet' = [riseSet EXCEPT !.step = "halve",
                                      !.trial = (riseSet.lo + riseSet.hi) \div 2,
                                      !.evaluated = FALSE]
  /\ UNCHANGED <<time, location, computeEquatorial, useDegrees, useNorthEqualsZeroOpt,
                 position, before, calls, pc>>

\* NoCrossing reporting a result whose rise and set times are 0: a variant
\* without the outcome NotFound for the polar day and the polar night.
NoCrossing_ZeroTimes ==
  /\ pc = "Searching"
  /\ riseSet.evaluated
  /\ \/ riseSet.step = "first end" /\ ~riseSet.ahead
     \/ riseSet.step = "second end" /\ riseSet.ahead
  /\ riseSet' = [riseSet EXCEPT !.riseTime = 0, !.setTime = 0]
  /\ pc' = "Converged"
  /\ UNCHANGED <<time, location, computeEquatorial, useDegrees, useNorthEqualsZeroOpt,
                 position, before, calls>>

\* The event is not in the first interval: the Sun does not pass rsAlt in that
\* half day (polar day, polar night).  NotFound.
NoCrossing ==
  /\ pc = "Searching"
  /\ riseSet.evaluated
  /\ \/ riseSet.step = "first end" /\ ~riseSet.ahead
     \/ riseSet.step = "second end" /\ riseSet.ahead
  /\ pc' = "NotFound"
  /\ UNCHANGED <<time, location, computeEquatorial, useDegrees, useNorthEqualsZeroOpt,
                 position, before, calls, riseSet>>

\* One iteration: the half of the interval that holds the event.
Iterate ==
  /\ pc = "Searching"
  /\ riseSet.evaluated
  /\ riseSet.step = "halve"
  /\ LET halve(lo, hi) ==
           riseSet' = [riseSet EXCEPT !.lo = lo, !.hi = hi, !.iterations = @ + 1,
                                      !.trial = (lo + hi) \div 2, !.evaluated = FALSE]
     IN  IF riseSet.ahead THEN halve(riseSet.trial, riseSet.hi)
                          ELSE halve(riseSet.lo, riseSet.trial)
  /\ UNCHANGED <<time, location, computeEquatorial, useDegrees, useNorthEqualsZeroOpt,
                 position, before, calls, pc>>

\* The event found at riseSet.hi, written to the result.
Found(rs) ==
  IF rs.event = "transit" THEN [rs EXCEPT !.transitTime = rs.hi]
  ELSE IF rs.event = "rise" THEN [rs EXCEPT !.riseTime = rs.hi]
  ELSE [rs EXCEPT !.setTime = rs.hi]

\* The search of the transit or of the rise has converged: the search of the
\* next event starts.
NextEvent ==
  /\ pc = "Searching"
  /\ ~riseSet.evaluated
  /\ riseSet.step = "halve"
  /\ Narrow(riseSet)
  /\ riseSet.event # "set"
  /\ LET start(rs, event) ==
           riseSet' = StartSearch(rs, event, FirstLo(event, rs.transitTime),
                                  FirstHi(event, rs.transitTime))
     IN  start(Found(riseSet), EventAfter(riseSet.event))
  /\ UNCHANGED <<time, location, computeEquatorial, useDegrees, useNorthEqualsZeroOpt,
                 position, before, calls, pc>>

\* The search of the set, the last, has converged: the result is complete.
Converge ==
  /\ pc = "Searching"
  /\ ~riseSet.evaluated
  /\ riseSet.step = "halve"
  /\ Narrow(riseSet)
  /\ riseSet.event = "set"
  /\ riseSet' = Found(riseSet)
  /\ pc' = "Converged"
  /\ UNCHANGED <<time, location, computeEquatorial, useDegrees, useNorthEqualsZeroOpt,
                 position, before, calls>>

\* The iterations have reached the cap and the interval is wider than the
\* accuracy: NotFound.
GiveUp ==
  /\ pc = "Searching"
  /\ ~riseSet.evaluated
  /\ riseSet.step = "halve"
  /\ ~Narrow(riseSet)
  /\ Exhausted(riseSet)
  /\ pc' = "NotFound"
  /\ UNCHANGED <<time, location, computeEquatorial, useDegrees, useNorthEqualsZeroOpt,
                 position, before, calls, riseSet>>

NextRiseSet ==
  \/ Evaluate
  \/ CheckEnd
  \/ NoCrossing
  \/ Iterate
  \/ NextEvent
  \/ Converge
  \/ GiveUp

SpecRiseSet == InitRiseSet /\ [][NextRiseSet]_vars

----------------------------------------------------------------------------
(* Properties of the rise, transit and set solver, for SpecRiseSet.        *)

Terminated == pc \in {"Converged", "NotFound"}

\* The events still to search after the one under way.
EventsLeft(event) == IF event = "transit" THEN 2 ELSE IF event = "rise" THEN 1 ELSE 0

\* A bound on the steps the search can still take: the steps left in the
\* search of the event under way, and those of the events after it.
StepsLeft ==
  IF Terminated THEN 0
  ELSE LET toDecide == IF riseSet.evaluated THEN 0 ELSE 1
           inEvent  == IF riseSet.step = "first end" THEN 2 * MaxIterations + 4
                       ELSE IF riseSet.step = "second end" THEN 2 * MaxIterations + 2
                       ELSE 2 * (MaxIterations - riseSet.iterations)
       IN  EventsLeft(riseSet.event) * (2 * MaxIterations + 6) + inEvent + toDecide

\* The steps that compute no position.
Decide ==
  \/ CheckEnd
  \/ NoCrossing
  \/ Iterate
  \/ NextEvent
  \/ Converge
  \/ GiveUp

\* The search can take a step: a position is to be computed, or a step that
\* computes none is enabled.
CanStep ==
  \/ ~riseSet.evaluated /\ (riseSet.step = "halve" => ~Narrow(riseSet) /\ ~Exhausted(riseSet))
  \/ ENABLED Decide

\* C16: the solver always terminates.  While Searching it can always take a
\* step; every step lowers a bound on the steps left, so that no search loops
\* and the search ends, in Converged or NotFound; the iterations of the search
\* of an event never exceed the cap MaxIterations; and a search whose iterations
\* have reached the cap with an interval wider than the accuracy ends in
\* NotFound at its next step, with the result untouched.
C16_SolverTerminates ==
  /\ [](pc \in {"Searching", "Converged", "NotFound"})
  /\ [](pc = "Searching" => CanStep)
  /\ [](riseSet.iterations <= MaxIterations /\ StepsLeft >= 0)
  /\ [][pc = "Searching" /\ StepsLeft' < StepsLeft]_vars
  /\ [][(Exhausted(riseSet) /\ ~Narrow(riseSet) /\ riseSet.step = "halve")
          => (pc' = "NotFound" /\ riseSet' = riseSet)]_vars

\* a search that has reached the cap without convergence and has ended in NotFound
C16_Witness ==
  /\ pc = "NotFound"
  /\ riseSet.iterations = MaxIterations
  /\ ~Narrow(riseSet)

\* Is the Sun below rsAlt at the instant s?
Below(s) == Lt(PositionAt(time, location, position, s).altitude, riseSet.rsAlt)

\* The rise and set times of the result are instants at which the Sun passes
\* rsAlt: below it an accuracy before the rise time and not at the rise time, the
\* other way round at the set time, the rise in the half day before the transit
\* and the set in the half day after it.
TimesAreCrossings ==
  /\ riseSet.transitTime - HalfDay < riseSet.riseTime
  /\ riseSet.riseTime <= riseSet.transitTime
  /\ riseSet.transitTime < riseSet.setTime
  /\ riseSet.setTime <= riseSet.transitTime + HalfDay
  /\ Below(riseSet.riseTime - riseSet.accuracy)
  /\ ~Below(riseSet.riseTime)
  /\ ~Below(riseSet.setTime - riseSet.accuracy)
  /\ Below(riseSet.setTime)

\* The event searched last is not in the interval its search started from.
NoEventInInterval ==
  /\ riseSet.iterations = 0
  /\ ~(/\ EventAhead(riseSet.event, riseSet.rsAlt, location,
                     PositionAt(time, location, position, riseSet.lo))
       /\ ~EventAhead(riseSet.event, riseSet.rsAlt, location,
                      PositionAt(time, location, position, riseSet.hi)))

\* The search stopped at the cap with an interval wider than the accuracy.
NotConverged == Exhausted(riseSet) /\ ~Narrow(riseSet)

\* C17: the solver ends in NotFound, and in no result, when the Sun does not
\* pass rsAlt in the half day searched or when a search has not converged within
\* the cap, and in NotFound only then; a result (Converged) holds rise and set
\* times that are instants at which the Sun passes rsAlt, found to the accuracy
\* asked for, never a time put in the place of NotFound.
C17_NotFoundIsDistinct ==
  /\ pc = "NotFound" => NoEventInInterval \/ NotConverged
  /\ pc = "Converged" => Narrow(riseSet) /\ TimesAreCrossings
  /\ (/\ pc = "Searching"
      /\ riseSet.evaluated
      /\ \/ riseSet.step = "first end" /\ ~riseSet.ahead
         \/ riseSet.step = "second end" /\ riseSet.ahead)
       => ~ENABLED (Decide /\ pc' # "NotFound")

\* the polar day or the polar night: NotFound, no search of the rise having iterated
C17_Witness ==
  /\ pc = "NotFound"
  /\ riseSet.event = "rise"
  /\ NoEventInInterval

----------------------------------------------------------------------------
(* Properties of computeJulianDay(), for SpecJD.                            *)

\* The Julian Day of the formula of Meeus, with its floors in whole numbers:
\* floor(365.25 x) = floor(1461 x / 4) and floor(30.6001 x) = floor(306001 x / 10000).
JulianDayFormula(t) ==
  LET Y  == IF t.month <= 2 THEN t.year - 1 ELSE t.year
      M  == IF t.month <= 2 THEN t.month + 12 ELSE t.month
      a  == Y \div 100
      b  == 2 - a + (a \div 4)
      dayFraction == Add(Add(Add(FromInt(t.day), DivInt(FromInt(t.hour), 24)),
                             DivInt(FromInt(t.minute), 1440)),
                         DivInt(t.second, 86400))
  IN  Sub(Add(FromInt(((1461 * (Y + 4716)) \div 4) + ((306001 * (M + 1)) \div 10000) + b),
              dayFraction),
          F(1524, 500, 0, 0, 0))

\* C1: for every input, computeJulianDay returns
\* floor(365.25 (Y + 4716)) + floor(30.6001 (M + 1)) + dayFraction + b - 1524.5 with
\* (Y, M) = (year - 1, month + 12) if month <= 2 and (year, month) otherwise,
\* a = floor(Y / 100), b = 2 - a + floor(a / 4), and
\* dayFraction = day + hour / 24 + minute / 1440 + second / 86400.
C1_JulianDayFormula ==
  pc = "timePolynomials" => position.julianDay = JulianDayFormula(time)

\* C1 happens: 1 January 2000, 12h UT is JD 2451545.0, and a date whose fields are
\* outside the calendar still gets the value of the formula.
C1_Witness ==
  /\ pc = "timePolynomials"
  /\ time = [year |-> 2000, month |-> 1, day |-> 1, hour |-> 12, minute |-> 0, second |-> Zero]
  /\ position.julianDay = F(2451545, 0, 0, 0, 0)

\* C2: for every calendar date of the Gregorian calendar from 1583 on, the Julian
\* Day at 0h UT of the next calendar date is the Julian Day at 0h UT of that date
\* plus exactly 1, at the ends of months and years, in leap years and in the
\* century years as well.
C2_ContinuousDayCount ==
  (pc = "timePolynomials" /\ IsCalendarDate(time) /\ IsMidnight(time)) =>
    LET next == NextDate(time)
    IN  computeJulianDay(next.year, next.month, next.day, next.hour, next.minute, next.second)
          = Add(position.julianDay, One)

\* C2 happens: 28 February 1900, a century year that is not a leap year, is
\* JD 2415078.5 and is followed by 1 March.
C2_Witness ==
  /\ pc = "timePolynomials"
  /\ time = [year |-> 1900, month |-> 2, day |-> 28, hour |-> 0, minute |-> 0, second |-> Zero]
  /\ NextDate(time).month = 3
  /\ position.julianDay = F(2415078, 500, 0, 0, 0)

----------------------------------------------------------------------------
(* Properties of computeLongitude(), for SpecLon.                           *)

DistanceInBounds ==
  /\ Leq(F(0, 983, 0, 0, 0), position.distance)
  /\ Leq(position.distance, F(1, 017, 0, 0, 0))

\* C9: in the years 1583 to 3000 the distance computed by computeLongitude lies
\* within [0.983, 1.017] AU.
C9_DistanceBoundsFrom1583 ==
  (pc = "convertEclipticToEquatorial" /\ time.year >= 1583 /\ time.year <= 3000)
    => DistanceInBounds

\* C9 happens: at the aphelion of 1583 the distance is above 1.0168 AU and inside
\* the bounds.
C9_Witness ==
  /\ pc = "convertEclipticToEquatorial"
  /\ time.year = 1583
  /\ Lt(F(1, 016, 800, 0, 0), position.distance)
  /\ DistanceInBounds

\* C9 as stated: the distance lies within [0.983, 1.017] AU for any date, that
\* is for every value of tJC.
C9_DistanceBoundsAnyDate ==
  pc = "convertEclipticToEquatorial" => DistanceInBounds

\* C10: for every instant of the years from 1583 on, the longitude stored by
\* computeLongitude lies in [0, 2 pi), whatever the sign or size of the sum of the
\* true longitude, the aberration and the nutation.
C10_LongitudeReduced ==
  (pc = "convertEclipticToEquatorial" /\ time.year >= 1583) =>
    /\ Leq(Zero, position.longitude)
    /\ Lt(position.longitude, TWO_PI)

\* C10 happens: in 1583 the mean longitude, 4.895 + 628.33 tJC, is far below
\* zero and the stored longitude is in [0, 2 pi).
C10_Witness ==
  /\ pc = "convertEclipticToEquatorial"
  /\ time.year = 1583
  /\ Lt(position.tJC, Neg(FromInt(4)))
  /\ Leq(Zero, position.longitude)
  /\ Lt(position.longitude, TWO_PI)

----------------------------------------------------------------------------
(* Properties of a call of SolTrack(), for Spec.                            *)

\* What convertEquatorialToHorizontal() gives for the equatorial coordinates held in
\* position: azimuthRefract and altitudeRefract in radians, South = 0.
Horizontal == convertEquatorialToHorizontal(location, position)

\* What convertHorizontalToEquatorial() gives for them: hourAngle and declination
\* in radians, South = 0.
Equatorial ==
  convertHorizontalToEquatorial(location.latitude,
                                Horizontal.azimuthRefract, Horizontal.altitudeRefract)

\* The same angles in the North = 0 convention, in radians.
Shifted ==
  useNorthEqualsZero(Horizontal.azimuthRefract, Equatorial.hourAngle, computeEquatorial)

\* C3: SolTrack returns azimuthRefract, altitudeRefract, hourAngleRefract and
\* declinationRefract in degrees only when the caller asks for degrees; when
\* useDegrees = 0 the four fields are returned in radians.
C3_DegreesOnlyOnRequest ==
  (pc = "done" /\ useDegrees = 0) =>
    /\ position.azimuthRefract \in {Horizontal.azimuthRefract, Shifted.azimuth}
    /\ position.altitudeRefract = Horizontal.altitudeRefract
    /\ computeEquatorial # 0 =>
         /\ position.hourAngleRefract \in {Equatorial.hourAngle, Shifted.hourAngle}
         /\ position.declinationRefract = Equatorial.declination

\* C4: South = 0 is the default convention: the shift by pi to North = 0 is made
\* only when the caller asks for it; when useNorthEqualsZero is not set,
\* azimuthRefract and hourAngleRefract are left as eq2horiz() and
\* convertHorizontalToEquatorial() gave them.
C4_SouthZeroByDefault ==
  (pc = "convertRadiansToDegrees" /\ useNorthEqualsZeroOpt = 0) =>
    /\ position.azimuthRefract = Horizontal.azimuthRefract
    /\ computeEquatorial # 0 => position.hourAngleRefract = Equatorial.hourAngle

\* C5: the statements of SolTrack() run in the order Julian Day, time polynomials,
\* computeLongitude, convertEclipticToEquatorial, convertEquatorialToHorizontal,
\* convertHorizontalToEquatorial if it is asked for, useNorthEqualsZero,
\* convertRadiansToDegrees, and convertHorizontalToEquatorial reads azimuthRefract
\* and altitudeRefract as convertEquatorialToHorizontal left them, in radians and
\* South = 0: no shifted or converted value is read by a transform.
C5_StageOrder ==
  [][ /\ pc = "computeJulianDay"              => pc' = "timePolynomials"
      /\ pc = "timePolynomials"               => pc' = "computeLongitude"
      /\ pc = "computeLongitude"              => pc' = "convertEclipticToEquatorial"
      /\ pc = "convertEclipticToEquatorial"   => pc' = "convertEquatorialToHorizontal"
      /\ pc = "convertEquatorialToHorizontal" => pc' = "convertHorizontalToEquatorial"
      /\ pc = "convertHorizontalToEquatorial" =>
           /\ pc' = "useNorthEqualsZero"
           /\ position.azimuthRefract  = Horizontal.azimuthRefract
           /\ position.altitudeRefract = Horizontal.altitudeRefract
           /\ IF computeEquatorial # 0
                THEN /\ position'.hourAngleRefract   = Equatorial.hourAngle
                     /\ position'.declinationRefract = Equatorial.declination
                ELSE position' = position
      /\ pc = "useNorthEqualsZero"            => pc' = "convertRadiansToDegrees"
      /\ pc = "convertRadiansToDegrees"       => pc' = "done"
    ]_vars

\* C5 happens: convertHorizontalToEquatorial has run on the radian, South = 0
\* output of convertEquatorialToHorizontal and the normalization is still to come.
C5_Witness ==
  /\ pc = "useNorthEqualsZero"
  /\ computeEquatorial # 0
  /\ position.azimuthRefract = Horizontal.azimuthRefract
  /\ position.hourAngleRefract = Equatorial.hourAngle
  /\ position.declinationRefract = Equatorial.declination

\* The altitude of eq2horiz() for the equatorial coordinates held in position.
UncorrectedAltitude ==
  eq2horiz(location.latitude, location.longitude,
           position.rightAscension, position.declination, agst(position)).altitude

\* line 180: the parallax at an altitude
Parallax(alt, dist) == Mul(Asin(Div(EARTH_RADIUS, Mul(dist, AU))), Cos(alt))

\* C6: convertEquatorialToHorizontal applies the parallax first, computed from the
\* altitude of eq2horiz, and the refraction second, computed from the altitude
\* corrected for parallax; altitudeRefract is the result of both, in that order.
C6_ParallaxThenRefraction ==
  pc = "convertHorizontalToEquatorial" =>
    /\ position.altitude = Sub(UncorrectedAltitude,
                               Parallax(UncorrectedAltitude, position.distance))
    /\ position.altitudeRefract = Add(position.altitude, Refraction(position.altitude))

\* C6 happens: the parallax has lowered the altitude of eq2horiz and the refraction
\* has raised the result.
C6_Witness ==
  /\ pc = "convertHorizontalToEquatorial"
  /\ Lt(position.altitude, UncorrectedAltitude)
  /\ Lt(position.altitude, position.altitudeRefract)
  /\ position.altitudeRefract # Add(position.altitude, Refraction(UncorrectedAltitude))

InOneTurn(angle, turn) == Leq(Zero, angle) /\ Lt(angle, turn)

InQuarterTurn(angle) == Leq(Neg(HALF_PI), angle) /\ Leq(angle, HALF_PI)

\* C8: every declination SolTrack returns, the declination field and, when the
\* equatorial output is asked for, the declinationRefract field, lies within
\* [-pi/2, pi/2].
C8_DeclinationsInQuarterTurn ==
  pc = "done" =>
    /\ InQuarterTurn(position.declination)
    /\ computeEquatorial # 0 => InQuarterTurn(position.declinationRefract)

----------------------------------------------------------------------------
(* Claims about several calls (SpecPair).                                  *)

BothReturned == \A c \in Callers : pc[c] = "done"

SameArguments ==
  /\ time[1] = time[2]
  /\ location[1] = location[2]
  /\ computeEquatorial[1] = computeEquatorial[2]

EquatorialFields == {"hourAngleRefract", "declinationRefract"}

\* C11 as stated: two calls with identical time, location and computeEquatorial
\* leave identical Position records, whatever the records held before the calls
\* and whatever calls were made before or in between.
C11_IdenticalRecords ==
  (BothReturned /\ SameArguments) => position[1] = position[2]

\* C11, amended: two calls with identical arguments leave records that agree in
\* every field if computeEquatorial is not 0; if it is 0 they agree in every field
\* but hourAngleRefract and declinationRefract, and these two hold in each record
\* what that record held before the call.
C11_IdenticalWrittenFields ==
  (BothReturned /\ SameArguments) =>
     /\ \A f \in (DOMAIN position[1]) \ EquatorialFields : position[1][f] = position[2][f]
     /\ IF computeEquatorial[1] # 0
          THEN \A f \in EquatorialFields : position[1][f] = position[2][f]
          ELSE \A c \in Callers : \A f \in EquatorialFields : position[c][f] = before[c][f]

\* Two returned calls with identical arguments and computeEquatorial = 0, the
\* second on a record that an earlier call had filled, the first on a fresh one.
C11_Witness ==
  /\ BothReturned
  /\ SameArguments
  /\ computeEquatorial[1] = 0
  /\ calls = <<1, 2>>
  /\ before[1] # before[2]
  /\ position[1] # position[2]

\* C12: whatever the interleaving of the statements of the two callers, a call
\* that has returned leaves in its record what SolTrack() run on its own makes of
\* the record the call began with.
C12_CallsIndependent ==
  \A c \in Callers :
    pc[c] = "done" =>
      position[c] = SolTrack(time[c], location[c], before[c], computeEquatorial[c])

\* Caller 1 has returned while caller 2 is in the middle of a call with other
\* arguments, its record half written.
C12_Witness ==
  /\ pc[1] = "done"
  /\ pc[2] = "convertEquatorialToHorizontal"
  /\ computeEquatorial[1] # computeEquatorial[2]
  /\ position[1].azimuthRefract # position[2].azimuthRefract
  /\ position[1].julianDay = position[2].julianDay

----------------------------------------------------------------------------
(* Claims about what one call writes (Spec).                               *)

\* C13: with computeEquatorial = 0 no statement of SolTrack() writes
\* hourAngleRefract or declinationRefract, which hold throughout the call what the
\* record held before it; with computeEquatorial not 0 both hold, once
\* convertHorizontalToEquatorial() has run, what it computes from the corrected
\* azimuth and altitude, and when the call returns neither holds its old value.
C13_BackConversionOnlyOnRequest ==
  /\ computeEquatorial = 0 =>
       /\ position.hourAngleRefract   = before.hourAngleRefract
       /\ position.declinationRefract = before.declinationRefract
  /\ (computeEquatorial # 0 /\ pc = "useNorthEqualsZero") =>
       LET written(eq) == /\ position.hourAngleRefract   = eq.hourAngle
                          /\ position.declinationRefract = eq.declination
       IN  written(convertHorizontalToEquatorial(location.latitude,
                     position.azimuthRefract, position.altitudeRefract))
  /\ (computeEquatorial # 0 /\ pc = "done") =>
       /\ position.hourAngleRefract   # before.hourAngleRefract
       /\ position.declinationRefract # before.declinationRefract

\* A call with computeEquatorial = 0 has returned on a record that held -7 in
\* every field: the two fields still hold -7, the azimuth does not.
C13_Witness ==
  /\ pc = "done"
  /\ computeEquatorial = 0
  /\ before.hourAngleRefract = FromInt(-7)
  /\ position.hourAngleRefract = FromInt(-7)
  /\ position.declinationRefract = FromInt(-7)
  /\ position.azimuthRefract # FromInt(-7)

\* C14: SolTrack() validates nothing and has no error outcome: whatever the fields
\* of the time, in the calendar or not, the Julian Day is the value of the formula
\* of computeJulianDay() on them, every step of the call is its next statement
\* (none leaves the call early or leads to an error exit), and the call returns
\* with a finite number in every field.
C14_NoValidationNoError ==
  /\ [](pc # "computeJulianDay" => position.julianDay = JulianDayFormula(time))
  /\ [](pc = "done" => \A f \in DOMAIN position : IsFinite(position[f]))
  /\ [][pc # "done" /\ pc' = NextStage(pc)]_vars

\* A call with month 13, day 32, hour 25, minute 61 and 60.5 seconds has returned,
\* with the Julian Day of the formula.
C14_Witness ==
  /\ pc = "done"
  /\ time.month = 13
  /\ time.day = 32
  /\ ~IsCalendarDate(time)
  /\ position.julianDay = JulianDayFormula(time)
  /\ IsFinite(position.azimuthRefract)

----------------------------------------------------------------------------
(* The round trip of the coordinates (SpecTrip).                           *)

\* the hour angle eq2horiz() computes with: agst + longitude - rightAscension, agst = 0
TripHourAngle == Sub(location.longitude, position.rightAscension)

\* the distance of two angles along the circle
TurnDistance(a, b) ==
  LET d == FloorMod(Sub(a, b), TWO_PI)
  IN  IF Lt(PI, d) THEN Sub(TWO_PI, d) ELSE d

\* the numerical tolerance: 10^-5 rad, the resolution here being 10^-12
TripTolerance == F(0, 0, 10, 0, 0)

\* the back-conversion has given the declination and, modulo a turn, the hour
\* angle that eq2horiz() began with
Recovered ==
  /\ IsFinite(position.declinationRefract)
  /\ IsFinite(position.hourAngleRefract)
  /\ Leq(Abs(Sub(position.declinationRefract, position.declination)), TripTolerance)
  /\ Leq(TurnDistance(position.hourAngleRefract, TripHourAngle), TripTolerance)

\* 1.4 rad, 80 degrees
MaxTripDeclination == F(1, 400, 0, 0, 0)

\* C15, for the declinations of at most 1.4 rad in magnitude among those it is
\* about: for every latitude inside (-pi/2, pi/2), every such declination and
\* every hour angle, convertHorizontalToEquatorial() applied to the azimuth and
\* altitude of eq2horiz() recovers the declination and the hour angle modulo 2 pi.
C15_RoundTrip ==
  (pc = "done" /\ Leq(Abs(position.declination), MaxTripDeclination)) => Recovered

----------------------------------------------------------------------------
(* The altitude returned (Spec).                                           *)

----------------------------------------------------------------------------
(* What the conversion to degrees touches (Spec).                          *)

\* The fields that are no final result, and the statement of SolTrack() that
\* writes each.
WriterOf ==
  [julianDay      |-> "computeJulianDay",
   dJD            |-> "timePolynomials",
   tJC            |-> "timePolynomials",
   tJC2           |-> "timePolynomials",
   tJC3           |-> "timePolynomials",
   longitude      |-> "computeLongitude",
   distance       |-> "computeLongitude",
   obliquity      |-> "computeLongitude",
   nutationLon    |-> "computeLongitude",
   rightAscension |-> "convertEclipticToEquatorial",
   declination    |-> "convertEclipticToEquatorial",
   altitude       |-> "convertEquatorialToHorizontal"]

----------------------------------------------------------------------------
(* The shift to North = 0 (Spec).                                          *)

\* What the sum of the roundings of a + PI + MPI and of MPI against 500000 turns
\* may amount to: 2.1e-7 rad with the twelve decimals of the model, 2.5e-10 rad with
\* the 53 bits of a double.
ShiftTolerance == F(0, 0, 1, 0, 0)

\* (a + pi) mod 2 pi
HalfTurnOn(a) == FloorMod(Add(a, PI), TWO_PI)

\* hour angles other than the one of the record, and azimuths other than its own
OtherAngles == {Zero, One, PI, F(4, 500, 0, 0, 0)}

\* C20: the statement that calls useNorthEqualsZero takes the azimuth a, which is
\* in [0, 2 pi), to (a + pi) mod 2 pi, within the rounding of the sum, and into
\* [0, 2 pi); it takes the hour angle h to (h + pi) mod 2 pi in the same way when
\* computeEquatorial is non-zero and leaves it as it is when computeEquatorial is
\* 0; an angle is shifted the same way as azimuth and as hour angle; and the new
\* azimuth is the same whatever the hour angle, the new hour angle the same
\* whatever the azimuth.
C20_NorthShift ==
  [][pc = "useNorthEqualsZero" =>
       /\ InOneTurn(position.azimuthRefract, TWO_PI)
       /\ InOneTurn(position'.azimuthRefract, TWO_PI)
       /\ Leq(TurnDistance(position'.azimuthRefract, HalfTurnOn(position.azimuthRefract)),
              ShiftTolerance)
       /\ IF computeEquatorial # 0
            THEN /\ InOneTurn(position'.hourAngleRefract, TWO_PI)
                 /\ Leq(TurnDistance(position'.hourAngleRefract,
                                     HalfTurnOn(position.hourAngleRefract)),
                        ShiftTolerance)
                 /\ position'.hourAngleRefract =
                      useNorthEqualsZero(position.hourAngleRefract, Zero, 1).azimuth
            ELSE position'.hourAngleRefract = position.hourAngleRefract
       /\ \A other \in OtherAngles :
            /\ useNorthEqualsZero(position.azimuthRefract, other, computeEquatorial).azimuth
                 = position'.azimuthRefract
            /\ useNorthEqualsZero(other, position.hourAngleRefract, computeEquatorial).hourAngle
                 = position'.hourAngleRefract
       /\ \A f \in DOMAIN position \ {"azimuthRefract", "hourAngleRefract"} :
            position'[f] = position[f]]_vars

\* the shift has taken an azimuth of the second half of the turn, counted from
\* the South, into the first half, counted from the North, and the hour angle with it
C20_Witness ==
  /\ pc = "convertRadiansToDegrees"
  /\ computeEquatorial # 0
  /\ Lt(PI, Horizontal.azimuthRefract)
  /\ Lt(position.azimuthRefract, PI)
  /\ Lt(PI, Equatorial.hourAngle)
  /\ Lt(position.hourAngleRefract, PI)

----------------------------------------------------------------------------
(* The refraction and the cosines taken as square roots (SpecRefract).     *)

\* the cosine of convertHorizontalToEquatorial(): the positive root of 1 - sin^2
RootCosine(angle) == Sqrt(Sub(One, Mul(Sin(angle), Sin(angle))))

\* the resolution of a root of 1 - sin^2 next to a quarter turn, with twelve decimals
CosineTolerance == F(0, 0, 10, 0, 0)

\* C21: the altitude corrected for refraction, whose cosine
\* convertHorizontalToEquatorial() takes as the positive root of 1 - sin^2, lies in
\* [-pi/2, pi/2], and the root is its cosine.
C21_RootIsCosine ==
  pc = "convertHorizontalToEquatorial" =>
    /\ Leq(Abs(position.altitudeRefract), HALF_PI)
    /\ Leq(Abs(Sub(RootCosine(position.altitudeRefract), Cos(position.altitudeRefract))),
           CosineTolerance)

\* C25: for every altitude corrected for parallax in [-pi/2, pi/2] the correction
\* for refraction is defined, no denominator of it being 0: altitudeRefract is a
\* finite value.
C25_RefractionFinite ==
  pc # "refraction" => IsFinite(position.altitudeRefract)

----------------------------------------------------------------------------
(* The months after December, for SpecJD.                                   *)

\* C23: for every year, day, hour, minute and second, computeJulianDay of month 13
\* is its value for month 1 of the year after, and of month 14 its value for
\* month 2 of the year after.
C23_MonthsAfterDecember ==
  (pc = "timePolynomials" /\ time.month \in {13, 14}) =>
    position.julianDay =
      computeJulianDay(time.year + 1, time.month - 12, time.day,
                       time.hour, time.minute, time.second)

\* C23 happens: month 14 of 1999, day 15, 12h UT, is 15 February 2000,
\* JD 2451590.0.
C23_Witness ==
  /\ pc = "timePolynomials"
  /\ time = [year |-> 1999, month |-> 14, day |-> 15, hour |-> 12, minute |-> 0, second |-> Zero]
  /\ position.julianDay = F(2451590, 0, 0, 0, 0)
  /\ computeJulianDay(2000, 2, 15, 12, 0, Zero) = F(2451590, 0, 0, 0, 0)

----------------------------------------------------------------------------
(* The epoch J2000.0, for SpecLon.                                          *)

J2000 == [year |-> 2000, month |-> 1, day |-> 1, hour |-> 12, minute |-> 0, second |-> Zero]

\* C24: the Julian Day of 1 January 2000, 12h 0m 0.0s UT is exactly 2451545.0, and
\* in a call of SolTrack at that instant dJD, tJC, tJC2 and tJC3 are set to exactly 0.
C24_EpochIsZero ==
  time = J2000 =>
    /\ pc # "computeJulianDay" => position.julianDay = F(2451545, 0, 0, 0, 0)
    /\ pc \notin {"computeJulianDay", "timePolynomials"} =>
         /\ position.dJD  = Zero
         /\ position.tJC  = Zero
         /\ position.tJC2 = Zero
         /\ position.tJC3 = Zero

\* C24 happens: the call at J2000.0 has passed the derived expressions of time
\* and computed the longitude from them, the record having held other values
\* before the call.
C24_Witness ==
  /\ time = J2000
  /\ pc = "convertEclipticToEquatorial"
  /\ position.dJD = Zero
  /\ position.tJC3 = Zero
  /\ before.dJD # Zero

----------------------------------------------------------------------------
(* The reduction of an angle to one turn, for SpecLon.                      *)

\* the reduction of lines 131, 218 and 248: fmod(x + MPI, TWO_PI)
Reduce(x) == Fmod(Add(x, MPI), TWO_PI)

\* C26: MPI being 500000 times TWO_PI, the reduction fmod(x + MPI, TWO_PI) leaves
\* a value that is in [0, 2 pi) already, as the longitude computeLongitude has
\* stored, as it is.
C26_ReductionLeavesReduced ==
  pc = "convertEclipticToEquatorial" =>
    /\ Leq(Zero, position.longitude) /\ Lt(position.longitude, TWO_PI)
    /\ Reduce(position.longitude) = position.longitude

----------------------------------------------------------------------------
(* What a call reads of the record it is given (Spec).                     *)

\* a record no call begins with in Spec
OtherPrior == PriorPosition(One)

\* C22: no statement of a call reads a field of the record that no earlier
\* statement of the call has written, so that what the call writes is independent
\* of what the record held: every field that the call has changed holds, at the
\* return, what the same call leaves in it on a record of other contents; with
\* computeEquatorial not 0 the call changes all 16 fields, and with
\* computeEquatorial = 0 all but hourAngleRefract and declinationRefract.
C22_WrittenIndependentOfPrior ==
  pc = "done" =>
    LET other == SolTrack(time, location, OtherPrior, computeEquatorial)
        Written == {f \in DOMAIN position : position[f] # before[f]}
    IN  /\ \A f \in Written : position[f] = other[f]
        /\ Written = IF computeEquatorial # 0 THEN DOMAIN position
                                              ELSE (DOMAIN position) \ EquatorialFields

\* C22 happens: a call asked for the equatorial output has returned on a record
\* that held -7 in each of its 16 fields, and none holds -7 any more.
C22_Witness ==
  /\ pc = "done"
  /\ computeEquatorial # 0
  /\ before = PriorPosition(FromInt(-7))
  /\ Cardinality(DOMAIN position) = 16
  /\ \A f \in DOMAIN position : position[f] # FromInt(-7)

====
